---- MODULE Spec2Model ----
(***************************************************************************)
(* Model of egs_core.py: the two ansatz builders                           *)
(* (build_genomic_ansatz_standard, build_genomic_ansatz_egs) and the       *)
(* benchmark orchestrator run_egs_benchmark.                               *)
(*                                                                         *)
(* A circuit is the sequence of instructions appended to a QuantumCircuit, *)
(* together with its number of classical bits.  Angles are discretised to  *)
(* the integers 0 .. NumAngles-1; the builders never compute with an       *)
(* angle, they only copy it from params into an instruction.               *)
(***************************************************************************)
EXTENDS Integers, Sequences, FiniteSets, TLC

VARIABLES n_qubits, layers, params, qc_std, qc_egs, std_arg, egs_arg,
          pc, rng, steps, qc_std_opt, qc_egs_opt, counts_std, counts_egs,
          report, ref

vars == <<n_qubits, layers, params, qc_std, qc_egs, std_arg, egs_arg,
          pc, rng, steps, qc_std_opt, qc_egs_opt, counts_std, counts_egs,
          report, ref>>

----------------------------------------------------------------------------
(* Bounds of the model *)

MaxQubits == 3
MaxLayers == 2
MaxExtra == 1
NumAngles == 5
RngMod == 7
MaxDepth == 2

(* Program constants *)

SHOTS == 8192
SEED == 42

----------------------------------------------------------------------------
(* Instructions of a QuantumCircuit.  angle = -1: the instruction has no   *)
(* angle; c = -1: it writes no classical bit.                              *)

H(i) == [kind |-> "h", q |-> <<i>>, angle |-> -1, c |-> -1]
CX(a, b) == [kind |-> "cx", q |-> <<a, b>>, angle |-> -1, c |-> -1]
RZ(theta, i) == [kind |-> "rz", q |-> <<i>>, angle |-> theta, c |-> -1]
RX(theta, i) == [kind |-> "rx", q |-> <<i>>, angle |-> theta, c |-> -1]
Barrier(n) == [kind |-> "barrier", q |-> [k \in 1..n |-> k - 1], angle |-> -1, c |-> -1]
Measure(i, cbit) == [kind |-> "measure", q |-> <<i>>, angle |-> -1, c |-> cbit]

(* QuantumCircuit(n_qubits, n_qubits): an empty circuit with n classical   *)
(* bits.  idx and reads belong to the builder: the parameter counter and   *)
(* the list of indices of params read so far; err is the exception raised. *)
QuantumCircuit(n, m) ==
  [data |-> <<>>, num_clbits |-> m, idx |-> 0, reads |-> <<>>, err |-> "none"]

Emit(st, ins) == [st EXCEPT !.data = Append(@, ins)]

(* params[idx] on a sequence of length Len(params), idx >= 0: IndexError   *)
(* when idx is out of range.                                               *)
OutOfRange(st, p) == st.idx >= Len(p)
Raise(st) == [st EXCEPT !.err = "IndexError"]
(* Variant: the vector is indexed from its end. *)
SubscriptReversed(st, p) == p[Len(p) - st.idx]
Subscript(st, p) == p[st.idx + 1]
Fetch(st) == [st EXCEPT !.reads = Append(@, st.idx)]
Advance(st) == [st EXCEPT !.idx = @ + 1]

(* for i in range(n_qubits): qc.h(i) *)
RECURSIVE Hadamards(_, _, _)
Hadamards(st, i, n) ==
  IF i >= n THEN st ELSE Hadamards(Emit(st, H(i)), i + 1, n)

(* qc.measure_all(): a barrier over all qubits, a new classical register   *)
(* of n bits appended after the existing classical bits, and qubit i       *)
(* measured into bit i of the new register.                                *)
RECURSIVE Measurements(_, _, _, _)
Measurements(st, i, n, base) ==
  IF i >= n THEN st
  ELSE Measurements(Emit(st, Measure(i, base + i)), i + 1, n, base)

MeasureBase(st) == st.num_clbits

measure_all(st, n) ==
  LET base == MeasureBase(st)
      s1 == Emit(st, Barrier(n))
      s2 == [s1 EXCEPT !.num_clbits = @ + n]
  IN Measurements(s2, 0, n, base)

(* What the caller of a builder gets: the circuit, or the exception.       *)
Outcome(st) ==
  IF st.err = "none"
  THEN [status |-> "returned", data |-> st.data, num_clbits |-> st.num_clbits,
        idx |-> st.idx, reads |-> st.reads, err |-> "none"]
  ELSE [status |-> "raised", data |-> <<>>, num_clbits |-> 0,
        idx |-> st.idx, reads |-> st.reads, err |-> st.err]

NoCircuit ==
  [status |-> "none", data |-> <<>>, num_clbits |-> 0,
   idx |-> 0, reads |-> <<>>, err |-> "none"]

----------------------------------------------------------------------------
(* build_genomic_ansatz_standard *)

(* Variant: the second cx of a pair is left out. *)
StdPairBodyNoUncompute(st, i, p) ==
  LET s1 == Emit(st, CX(i, i + 1))
  IN IF OutOfRange(s1, p) THEN Raise(s1)
     ELSE Advance(Emit(Fetch(s1), RZ(Subscript(s1, p), i + 1)))

StdPairBody(st, i, p) ==
  LET s1 == Emit(st, CX(i, i + 1))
  IN IF OutOfRange(s1, p) THEN Raise(s1)
     ELSE LET s2 == Emit(Fetch(s1), RZ(Subscript(s1, p), i + 1))
              s3 == Emit(s2, CX(i, i + 1))
          IN Advance(s3)

RECURSIVE StdPairs(_, _, _, _)
StdPairs(st, i, n, p) ==
  IF i >= n - 1 \/ st.err # "none" THEN st
  ELSE StdPairs(StdPairBody(st, i, p), i + 1, n, p)

(* Variant: idx is not incremented after an rx. *)
RxBodyNoAdvance(st, i, p) ==
  IF OutOfRange(st, p) THEN Raise(st)
  ELSE Emit(Fetch(st), RX(Subscript(st, p), i))

RxBody(st, i, p) ==
  IF OutOfRange(st, p) THEN Raise(st)
  ELSE Advance(Emit(Fetch(st), RX(Subscript(st, p), i)))

RECURSIVE RxLoop(_, _, _, _)
RxLoop(st, i, n, p) ==
  IF i >= n \/ st.err # "none" THEN st
  ELSE RxLoop(RxBody(st, i, p), i + 1, n, p)

StdLayer(st, n, p) == RxLoop(StdPairs(st, 0, n, p), 0, n, p)

RECURSIVE StdLayers(_, _, _, _, _)
StdLayers(st, l, L, n, p) ==
  IF l >= L \/ st.err # "none" THEN st
  ELSE StdLayers(StdLayer(st, n, p), l + 1, L, n, p)

build_genomic_ansatz_standard(n, L, p) ==
  LET s0 == Hadamards(QuantumCircuit(n, n), 0, n)
      s1 == StdLayers(s0, 0, L, n, p)
  IN IF s1.err # "none" THEN Outcome(s1) ELSE Outcome(measure_all(s1, n))

----------------------------------------------------------------------------
(* build_genomic_ansatz_egs *)

(* rz_ops.append((i+1, params[idx])); idx += 1.  The state carries the     *)
(* list rz_ops next to the circuit.                                        *)
RECURSIVE RzCollect(_, _, _, _, _)
RzCollect(st, ops, i, n, p) ==
  IF i >= n - 1 THEN [st |-> st, ops |-> ops]
  ELSE IF OutOfRange(st, p) THEN [st |-> Raise(st), ops |-> ops]
  ELSE RzCollect(Advance(Fetch(st)), Append(ops, <<i + 1, Subscript(st, p)>>),
                 i + 1, n, p)

(* for q, theta in rz_ops: qc.rz(theta, q) *)
RECURSIVE RzApply(_, _, _)
RzApply(st, ops, k) ==
  IF k > Len(ops) THEN st
  ELSE RzApply(Emit(st, RZ(ops[k][2], ops[k][1])), ops, k + 1)

(* for i in range(n_qubits - 1): qc.cx(i, i+1) *)
RECURSIVE EntangleChain(_, _, _)
EntangleChain(st, i, n) ==
  IF i >= n - 1 THEN st ELSE EntangleChain(Emit(st, CX(i, i + 1)), i + 1, n)

(* Variant: the cx chain of a layer is emitted inside the layer. *)
EgsLayerInterleaved(st, n, p) ==
  LET c == RzCollect(st, <<>>, 0, n, p)
  IN IF c.st.err # "none" THEN c.st
     ELSE LET s1 == Emit(RzApply(c.st, c.ops, 1), Barrier(n))
              s2 == RxLoop(s1, 0, n, p)
          IN IF s2.err # "none" THEN s2
             ELSE EntangleChain(Emit(s2, Barrier(n)), 0, n)

EgsLayer(st, n, p) ==
  LET c == RzCollect(st, <<>>, 0, n, p)
  IN IF c.st.err # "none" THEN c.st
     ELSE LET s1 == Emit(RzApply(c.st, c.ops, 1), Barrier(n))
              s2 == RxLoop(s1, 0, n, p)
          IN IF s2.err # "none" THEN s2 ELSE Emit(s2, Barrier(n))

RECURSIVE EgsLayers(_, _, _, _, _)
EgsLayers(st, l, L, n, p) ==
  IF l >= L \/ st.err # "none" THEN st
  ELSE EgsLayers(EgsLayer(st, n, p), l + 1, L, n, p)

(* Variant: the loop over layers runs once more than layers. *)
RECURSIVE DeferredEntanglementOffByOne(_, _, _, _)
DeferredEntanglementOffByOne(st, l, L, n) ==
  IF l > L THEN st
  ELSE DeferredEntanglementOffByOne(EntangleChain(st, 0, n), l + 1, L, n)

RECURSIVE DeferredEntanglement(_, _, _, _)
DeferredEntanglement(st, l, L, n) ==
  IF l >= L THEN st
  ELSE DeferredEntanglement(EntangleChain(st, 0, n), l + 1, L, n)

build_genomic_ansatz_egs(n, L, p) ==
  LET s0 == Emit(Hadamards(QuantumCircuit(n, n), 0, n), Barrier(n))
      s1 == EgsLayers(s0, 0, L, n, p)
  IN IF s1.err # "none" THEN Outcome(s1)
     ELSE Outcome(measure_all(DeferredEntanglement(s1, 0, L, n), n))

----------------------------------------------------------------------------
(* run_egs_benchmark *)

(* n_params = n_layers * (n_qubits + (n_qubits - 1)) *)
NParams(n, L) == L * (n + (n - 1))

(* The process-global generator of numpy: a deterministic generator with   *)
(* a finite state.  seed(s) sets the state from s alone; every draw steps  *)
(* the state and returns a value computed from it.                         *)
(* Variant: the generator is not reseeded. *)
RngSeedIgnored(old, s) == old
RngSeed(old, s) == s % RngMod
RngStep(s) == (3 * s + 1) % RngMod
RngValue(s) == s % NumAngles

(* np.random.uniform(-pi, pi, k): k successive draws. *)
RECURSIVE Uniform(_, _)
Uniform(s, k) ==
  IF k <= 0 THEN [vec |-> <<>>, state |-> s]
  ELSE LET r == Uniform(s, k - 1)
       IN [vec |-> Append(r.vec, RngValue(RngStep(r.state))),
           state |-> RngStep(r.state)]

(* Variant: the exception of a step is swallowed and the call goes on. *)
AfterStepCaught(ok, nxt) == nxt

(* An exception of a step is not caught: the call ends there. *)
AfterStep(ok, nxt) == IF ok THEN nxt ELSE "raised"

StepOrder ==
  <<"build_std", "build_egs", "compile_std", "compile_egs",
    "exec_std", "exec_egs", "metrics">>

(* transpile(qc, backend, optimization_level=3): a compiled circuit with   *)
(* some depth, or an exception.                                            *)
NoCompiled == [ok |-> FALSE, depth |-> -1]
TranspileOutcomes == {NoCompiled} \cup {[ok |-> TRUE, depth |-> d] : d \in 1..MaxDepth}

(* backend.run(qc, shots=SHOTS).result().get_counts(): the values of the   *)
(* counts dictionary, which sum to SHOTS, or an exception.                 *)
NoCounts == [ok |-> FALSE, values |-> <<>>]
CountTables == {<<SHOTS>>, <<SHOTS \div 2, SHOTS \div 2>>, <<1, SHOTS - 1>>}
RunOutcomes == {NoCounts} \cup {[ok |-> TRUE, values |-> t] : t \in CountTables}

RECURSIVE MaxOf(_)
MaxOf(t) ==
  IF Len(t) = 1 THEN t[1]
  ELSE LET m == MaxOf(Tail(t)) IN IF t[1] >= m THEN t[1] ELSE m

(* max(counts.values()) / SHOTS, kept as a fraction; -1: no value. *)
Fidelity(counts) ==
  IF counts.ok THEN [num |-> MaxOf(counts.values), den |-> SHOTS]
  ELSE [num |-> -1, den |-> SHOTS]

Depth(compiled) == compiled.depth

NoReport == [k \in {} |-> 0]

MakeReport(cs, ce, os, oe) ==
  [fid_std |-> Fidelity(cs), fid_egs |-> Fidelity(ce),
   depth_std |-> Depth(os), depth_egs |-> Depth(oe)]

NoRef == [set |-> FALSE, n |-> 0, L |-> 0, vec |-> <<>>]

----------------------------------------------------------------------------
(* Parameter vectors handed to a builder by a direct caller: arithmetic    *)
(* progressions of angles, of every length up to MaxExtra more than needed *)

Vec(len, a, b) == [k \in 1..len |-> (a + b * (k - 1)) % NumAngles]

ParamVectors(n, L) ==
  {Vec(len, a, b) : len \in 0..(NParams(n, L) + MaxExtra),
                    a \in 0..(NumAngles - 1), b \in 0..(NumAngles - 1)}

Locals ==
  /\ qc_std = NoCircuit /\ qc_egs = NoCircuit
  /\ std_arg = <<>> /\ egs_arg = <<>>
  /\ steps = <<>>
  /\ qc_std_opt = NoCompiled /\ qc_egs_opt = NoCompiled
  /\ counts_std = NoCounts /\ counts_egs = NoCounts
  /\ report = NoReport

(* A caller about to call the builders directly. *)
Init ==
  /\ n_qubits \in 1..MaxQubits
  /\ layers \in 0..MaxLayers
  /\ params \in ParamVectors(n_qubits, layers)
  /\ pc = "direct"
  /\ rng = 0
  /\ ref = NoRef
  /\ Locals

CallStandard ==
  /\ pc = "direct"
  /\ qc_std.status = "none"
  /\ qc_std' = build_genomic_ansatz_standard(n_qubits, layers, params)
  /\ std_arg' = params
  /\ UNCHANGED <<n_qubits, layers, params, qc_egs, egs_arg, pc, rng, steps,
                 qc_std_opt, qc_egs_opt, counts_std, counts_egs, report, ref>>

CallEgs ==
  /\ pc = "direct"
  /\ qc_egs.status = "none"
  /\ qc_egs' = build_genomic_ansatz_egs(n_qubits, layers, params)
  /\ egs_arg' = params
  /\ UNCHANGED <<n_qubits, layers, params, qc_std, std_arg, pc, rng, steps,
                 qc_std_opt, qc_egs_opt, counts_std, counts_egs, report, ref>>

Next == CallStandard \/ CallEgs

Spec == Init /\ [][Next]_vars

----------------------------------------------------------------------------
(* The orchestrator, one action per statement group of run_egs_benchmark.  *)

InitBench ==
  /\ n_qubits = 1 /\ layers = 0 /\ params = <<>>
  /\ pc = "idle"
  /\ rng \in 0..(RngMod - 1)
  /\ ref = NoRef
  /\ Locals

(* Any other use of the global generator between two benchmark calls. *)
OtherRandomUse ==
  /\ pc = "idle"
  /\ \E s \in 0..(RngMod - 1) : rng' = s
  /\ UNCHANGED <<n_qubits, layers, params, qc_std, qc_egs, std_arg, egs_arg,
                 pc, steps, qc_std_opt, qc_egs_opt, counts_std, counts_egs,
                 report, ref>>

(* Lines 114-116. *)
Start ==
  /\ pc = "idle"
  /\ \E n \in 1..MaxQubits, L \in 0..MaxLayers :
       LET u == Uniform(RngSeed(rng, SEED), NParams(n, L))
       IN /\ n_qubits' = n
          /\ layers' = L
          /\ params' = u.vec
          /\ rng' = u.state
  /\ pc' = "build_std"
  /\ UNCHANGED <<qc_std, qc_egs, std_arg, egs_arg, steps, qc_std_opt,
                 qc_egs_opt, counts_std, counts_egs, report, ref>>

BuildStd ==
  /\ pc = "build_std"
  /\ std_arg' = params
  /\ qc_std' = build_genomic_ansatz_standard(n_qubits, layers, params)
  /\ pc' = AfterStep(qc_std'.status = "returned", "build_egs")
  /\ steps' = Append(steps, "build_std")
  /\ UNCHANGED <<n_qubits, layers, params, qc_egs, egs_arg, rng, qc_std_opt,
                 qc_egs_opt, counts_std, counts_egs, report, ref>>

BuildEgs ==
  /\ pc = "build_egs"
  /\ egs_arg' = params
  /\ qc_egs' = build_genomic_ansatz_egs(n_qubits, layers, params)
  /\ pc' = AfterStep(qc_egs'.status = "returned", "compile_std")
  /\ steps' = Append(steps, "build_egs")
  /\ UNCHANGED <<n_qubits, layers, params, qc_std, std_arg, rng, qc_std_opt,
                 qc_egs_opt, counts_std, counts_egs, report, ref>>

CompileStd ==
  /\ pc = "compile_std"
  /\ \E r \in TranspileOutcomes :
       /\ qc_std_opt' = r
       /\ pc' = AfterStep(r.ok, "compile_egs")
  /\ steps' = Append(steps, "compile_std")
  /\ UNCHANGED <<n_qubits, layers, params, qc_std, qc_egs, std_arg, egs_arg,
                 rng, qc_egs_opt, counts_std, counts_egs, report, ref>>

CompileEgs ==
  /\ pc = "compile_egs"
  /\ \E r \in TranspileOutcomes :
       /\ qc_egs_opt' = r
       /\ pc' = AfterStep(r.ok, "exec_std")
  /\ steps' = Append(steps, "compile_egs")
  /\ UNCHANGED <<n_qubits, layers, params, qc_std, qc_egs, std_arg, egs_arg,
                 rng, qc_std_opt, counts_std, counts_egs, report, ref>>

ExecStd ==
  /\ pc = "exec_std"
  /\ \E r \in RunOutcomes :
       /\ counts_std' = r
       /\ pc' = AfterStep(r.ok, "exec_egs")
  /\ steps' = Append(steps, "exec_std")
  /\ UNCHANGED <<n_qubits, layers, params, qc_std, qc_egs, std_arg, egs_arg,
                 rng, qc_std_opt, qc_egs_opt, counts_egs, report, ref>>

ExecEgs ==
  /\ pc = "exec_egs"
  /\ \E r \in RunOutcomes :
       /\ counts_egs' = r
       /\ pc' = AfterStep(r.ok, "metrics")
  /\ steps' = Append(steps, "exec_egs")
  /\ UNCHANGED <<n_qubits, layers, params, qc_std, qc_egs, std_arg, egs_arg,
                 rng, qc_std_opt, qc_egs_opt, counts_std, report, ref>>

Metrics ==
  /\ pc = "metrics"
  /\ report' = MakeReport(counts_std, counts_egs, qc_std_opt, qc_egs_opt)
  /\ pc' = "returned"
  /\ steps' = Append(steps, "metrics")
  /\ UNCHANGED <<n_qubits, layers, params, qc_std, qc_egs, std_arg, egs_arg,
                 rng, qc_std_opt, qc_egs_opt, counts_std, counts_egs, ref>>

(* The call is over (report returned or exception propagated); its locals  *)
(* are gone, the global generator stays as the call left it.  ref keeps    *)
(* the arguments and the parameter vector of one earlier call, any one.    *)
Finish ==
  /\ pc \in {"returned", "raised"}
  /\ pc' = "idle"
  /\ n_qubits' = 1 /\ layers' = 0 /\ params' = <<>>
  /\ qc_std' = NoCircuit /\ qc_egs' = NoCircuit
  /\ std_arg' = <<>> /\ egs_arg' = <<>>
  /\ steps' = <<>>
  /\ qc_std_opt' = NoCompiled /\ qc_egs_opt' = NoCompiled
  /\ counts_std' = NoCounts /\ counts_egs' = NoCounts
  /\ report' = NoReport
  /\ \E keep \in BOOLEAN :
       ref' = IF keep THEN ref
              ELSE [set |-> TRUE, n |-> n_qubits, L |-> layers, vec |-> params]
  /\ UNCHANGED rng

NextBench ==
  \/ OtherRandomUse \/ Start \/ BuildStd \/ BuildEgs \/ CompileStd
  \/ CompileEgs \/ ExecStd \/ ExecEgs \/ Metrics \/ Finish

SpecBench == InitBench /\ [][NextBench]_vars

----------------------------------------------------------------------------
(* Properties *)

Required == NParams(n_qubits, layers)
Stride == 2 * n_qubits - 1
Built == {qc_std, qc_egs}
Returned == {r \in Built : r.status = "returned"}
OfKind(data, kinds) == SelectSeq(data, LAMBDA x : x.kind \in kinds)
Positions(data, kinds) == {k \in 1..Len(data) : data[k].kind \in kinds}
Occurrences(data, g) ==
  Cardinality({k \in 1..Len(data) :
                 /\ data[k].kind = g.kind /\ data[k].q = g.q
                 /\ data[k].angle = g.angle})
GatesOf(data) == {data[k] : k \in Positions(data, {"rz", "rx", "cx"})}

(* C1: for n_qubits >= 2, layers >= 1 and a vector of exactly the required *)
(* length, the two builders return circuits with the same multiset of      *)
(* rotation and entangling gates (kind, qubits, angle).                    *)
C1_SameGateMultiset ==
  (/\ qc_std.status = "returned" /\ qc_egs.status = "returned"
   /\ n_qubits >= 2 /\ layers >= 1 /\ Len(params) = Required)
  => \A g \in GatesOf(qc_std.data) \cup GatesOf(qc_egs.data) :
       Occurrences(qc_std.data, g) = Occurrences(qc_egs.data, g)

(* C2: in both builders the k-th rz of layer l is on qubit i+1 with angle  *)
(* params[l*stride + i], and the rx on qubit i of layer l has angle        *)
(* params[l*stride + (n_qubits-1) + i].                                    *)
C2_SameIndexMapping ==
  \A r \in Returned :
    LET rz == OfKind(r.data, {"rz"})
        rx == OfKind(r.data, {"rx"})
    IN /\ Len(rz) = layers * (n_qubits - 1)
       /\ Len(rx) = layers * n_qubits
       /\ \A l \in 0..(layers - 1) :
            /\ \A i \in 0..(n_qubits - 2) :
                 LET g == rz[l * (n_qubits - 1) + i + 1]
                 IN g.q = <<i + 1>> /\ g.angle = params[l * Stride + i + 1]
            /\ \A i \in 0..(n_qubits - 1) :
                 LET g == rx[l * n_qubits + i + 1]
                 IN g.q = <<i>>
                    /\ g.angle = params[l * Stride + (n_qubits - 1) + i + 1]

C2_Witness ==
  /\ qc_std.status = "returned" /\ qc_egs.status = "returned"
  /\ n_qubits >= 3 /\ layers >= 2
  /\ params[1] # params[2]

(* C3: a builder called with a vector shorter than required raises         *)
(* InsufficientParametersError.                                            *)
C3_RaisesInsufficientParameters ==
  \A r \in Built :
    (r.status # "none" /\ Len(params) < Required)
    => (r.status = "raised" /\ r.err = "InsufficientParametersError")

(* C4: in the circuit of build_genomic_ansatz_egs every cx comes after     *)
(* every rz and rx, after the barrier that closes the last layer and       *)
(* before every measurement; each layer is a batch of rz, a barrier, a     *)
(* batch of rx, a barrier, with no cx in between.                          *)
EgsLayerBase(l) == n_qubits + 1 + l * (Stride + 2)

C4_EgsDefersEntanglement ==
  qc_egs.status = "returned" =>
    LET d == qc_egs.data
        cxs == Positions(d, {"cx"})
        lastStage == EgsLayerBase(layers)
    IN /\ \A c \in cxs :
            /\ \A k \in Positions(d, {"rz", "rx"}) : k < c
            /\ c > lastStage
            /\ \A m \in Positions(d, {"measure"}) : c < m
       /\ d[lastStage].kind = "barrier"
       /\ \A l \in 0..(layers - 1) :
            LET b == EgsLayerBase(l)
            IN /\ \A i \in 1..(n_qubits - 1) : d[b + i].kind = "rz"
               /\ d[b + n_qubits].kind = "barrier"
               /\ \A i \in 1..n_qubits : d[b + n_qubits + i].kind = "rx"
               /\ d[b + 2 * n_qubits + 1].kind = "barrier"

C4_Witness ==
  /\ qc_egs.status = "returned" /\ n_qubits >= 2 /\ layers >= 2
  /\ Cardinality(Positions(qc_egs.data, {"cx"})) = layers * (n_qubits - 1)

(* C5: in the circuit of build_genomic_ansatz_standard each layer is, for  *)
(* each pair i in increasing order, cx(i,i+1), rz(angle,i+1), cx(i,i+1),   *)
(* then rx on qubits 0..n_qubits-1; no barrier lies between the Hadamards  *)
(* and the last rotation of the last layer.                                *)
StdLayerLen == 3 * (n_qubits - 1) + n_qubits
StdLayerBase(l) == n_qubits + l * StdLayerLen

C5_StandardInterleaves ==
  qc_std.status = "returned" =>
    LET d == qc_std.data
    IN /\ \A l \in 0..(layers - 1) :
            LET b == StdLayerBase(l)
            IN /\ \A i \in 0..(n_qubits - 2) :
                    /\ d[b + 3 * i + 1] = CX(i, i + 1)
                    /\ d[b + 3 * i + 2].kind = "rz"
                    /\ d[b + 3 * i + 2].q = <<i + 1>>
                    /\ d[b + 3 * i + 3] = CX(i, i + 1)
               /\ \A i \in 0..(n_qubits - 1) :
                    LET g == d[b + 3 * (n_qubits - 1) + i + 1]
                    IN g.kind = "rx" /\ g.q = <<i>>
       /\ \A k \in 1..StdLayerBase(layers) : d[k].kind # "barrier"
       /\ \A k \in 1..n_qubits : d[k] = H(k - 1)

C5_Witness ==
  /\ qc_std.status = "returned" /\ n_qubits >= 3 /\ layers >= 2
  /\ Len(qc_std.data) > StdLayerBase(layers)

(* C6: the circuit of each builder ends with the measurement of every      *)
(* qubit i into classical bit i, and has exactly n_qubits classical bits,  *)
(* each written by exactly one measurement.                                *)
C6_MeasuresIntoLikeIndexedBit ==
  \A r \in Returned :
    LET d == r.data
        m == Positions(d, {"measure"})
    IN /\ r.num_clbits = n_qubits
       /\ \A i \in 0..(n_qubits - 1) :
            /\ d[Len(d) - n_qubits + i + 1] = Measure(i, i)
            /\ Cardinality({k \in m : d[k].c = i}) = 1
       /\ \A k \in m : k > Len(d) - n_qubits

(* C7: run_egs_benchmark performs its steps in the fixed order; a failing  *)
(* step ends the call with no report; a returned report has all four       *)
(* values.                                                                 *)
ReportKeys == {"fid_std", "fid_egs", "depth_std", "depth_egs"}

Complete(rep) ==
  /\ DOMAIN rep = ReportKeys
  /\ rep.fid_std.num >= 0 /\ rep.fid_egs.num >= 0
  /\ rep.depth_std >= 0 /\ rep.depth_egs >= 0

C7_NoPartialReport ==
  /\ Len(steps) <= Len(StepOrder)
  /\ steps = SubSeq(StepOrder, 1, Len(steps))
  /\ pc = "returned" => (steps = StepOrder /\ Complete(report))
  /\ pc # "returned" => DOMAIN report = {}
  /\ pc = "raised" => Len(steps) < Len(StepOrder)

C7_Witness ==
  /\ pc = "raised"
  /\ counts_std.ok /\ ~counts_egs.ok
  /\ steps = SubSeq(StepOrder, 1, 6)
  /\ DOMAIN report = {}

(* C8: two calls of run_egs_benchmark with the same (n_qubits, n_layers)   *)
(* use the same parameter vector, of length n_layers*(2*n_qubits-1),       *)
(* whatever the state of the global generator before each; both builders   *)
(* of one call receive that vector.                                        *)
C8_DeterministicParams ==
  pc \notin {"idle", "direct"} =>
    /\ Len(params) = Required
    /\ (ref.set /\ ref.n = n_qubits /\ ref.L = layers) => params = ref.vec
    /\ qc_std.status # "none" => std_arg = params
    /\ qc_egs.status # "none" => (egs_arg = params /\ egs_arg = std_arg)

C8_Witness ==
  /\ pc = "compile_std"
  /\ ref.set /\ ref.n = n_qubits /\ ref.L = layers
  /\ n_qubits >= 2 /\ layers >= 1
  /\ std_arg = ref.vec /\ egs_arg = ref.vec

(* C9 as stated: with layers = 0 the returned circuit holds only the       *)
(* Hadamards and the measurements.                                         *)
C9_OnlyHadamardsAndMeasurements ==
  \A r \in Returned :
    layers = 0 =>
      /\ Required = 0
      /\ \A k \in 1..Len(r.data) : r.data[k].kind \in {"h", "measure"}

(* C9 amended: with layers = 0 no parameter is required and the returned   *)
(* circuit holds one Hadamard per qubit, then barriers only (one in the    *)
(* standard circuit, two in the EGS circuit), then one measurement per     *)
(* qubit; no rotation and no cx.                                           *)
ZeroLayerShape(d, nbar) ==
  /\ Len(d) = 2 * n_qubits + nbar
  /\ \A i \in 1..n_qubits : d[i] = H(i - 1)
  /\ \A i \in 1..nbar : d[n_qubits + i] = Barrier(n_qubits)
  /\ \A i \in 1..n_qubits :
       /\ d[n_qubits + nbar + i].kind = "measure"
       /\ d[n_qubits + nbar + i].q = <<i - 1>>

C9_ZeroLayers ==
  layers = 0 =>
    /\ Required = 0
    /\ qc_std.status # "none" =>
         (qc_std.status = "returned" /\ ZeroLayerShape(qc_std.data, 1))
    /\ qc_egs.status # "none" =>
         (qc_egs.status = "returned" /\ ZeroLayerShape(qc_egs.data, 2))

C9_Witness ==
  /\ layers = 0 /\ n_qubits >= 2
  /\ qc_std.status = "returned" /\ qc_egs.status = "returned"

(* C10: with a vector at least as long as required each builder reads the  *)
(* indices 0 .. required-1 once each in increasing order, ends with idx =  *)
(* required, raises nothing, and returns the circuit it returns for the    *)
(* prefix of the vector of the required length.                            *)
Prefix == SubSeq(params, 1, Required)

C10_ReadsExactlyRequired ==
  Len(params) >= Required =>
    /\ \A r \in Built :
         r.status # "none" =>
           /\ r.status = "returned"
           /\ r.idx = Required
           /\ r.reads = [k \in 1..Required |-> k - 1]
    /\ qc_std.status # "none" =>
         qc_std.data = build_genomic_ansatz_standard(n_qubits, layers, Prefix).data
    /\ qc_egs.status # "none" =>
         qc_egs.data = build_genomic_ansatz_egs(n_qubits, layers, Prefix).data

C10_Witness ==
  /\ Len(params) > Required /\ Required >= 5
  /\ qc_std.status = "returned" /\ qc_egs.status = "returned"
  /\ qc_std.idx = Required /\ qc_egs.idx = Required

====
